---- MODULE Spec2Model ----
(***************************************************************************)
(* Model of grapple's paginated fetch loop (cmd/root.go) driving the       *)
(* logadmin entry iterator (internal/logadmin/logadmin.go) against a       *)
(* paginated logging backend.                                              *)
(*                                                                         *)
(* Continuation tokens are naturals: 0 is the empty token "", p + 1 is the *)
(* opaque token that designates position p of the backend's result         *)
(* sequence.  Log entries are identified by their position 1..nEntries.    *)
(* Time is counted in clock ticks; RFC3339 formatting keeps whole seconds. *)
(***************************************************************************)
EXTENDS Integers, Sequences, FiniteSets, TLC

\* ------------------------------------------------------------------ bounds
MaxEntries == 3        \* longest backend result sequence explored
PageSize == 2          \* page size requested by the loop (1000 in the code, scaled)
MaxFaults == 2         \* backend answers without progress in one run: rate-limit errors
                       \* and pages that carry a token but no new position
MaxBad == 1            \* entries of the result sequence that cannot be marshalled
TicksPerSecond == 2    \* clock resolution below the second
MaxExprLen == 4        \* longest --freshness expression explored, in characters

\* --------------------------------------------------------------- constants
SecondsPerDay == 86400
Day == SecondsPerDay * TicksPerSecond
StartTime == 2 * Day + 1

VARIABLES
    pc,            \* position of fetchAndProcessLogs
    currentToken,  \* root.go currentToken
    rateLimited,   \* root.go rateLimited
    ret,           \* value returned by fetchAndProcessLogs
    err,           \* err of the last pager.NextPage
    entries,       \* slice filled by pager.NextPage
    nextToken,     \* token returned by pager.NextPage
    idx,           \* range index over entries
    req,           \* ListLogEntriesRequest of the current cursor
    pagerToken,    \* Pager's PageInfo.Token
    items,         \* EntryIterator.items
    viToken,       \* vkit iterator's PageInfo.Token
    viMaxSize,     \* vkit iterator's PageInfo.MaxSize
    callCtxDone,   \* ctx was already cancelled when pager.NextPage was called
    out,           \* lines written to stdout
    logs,          \* lines written to the log
    lastRequest,   \* the latest page request handed to the backend client
    sentConfigs,   \* the request configurations handed to the backend client so far
    opts,          \* request options built by rootCmd.Run
    cancelled,     \* ctx.Done() closed
    now,           \* wall clock
    nEntries,      \* length of the backend's result sequence
    bad,           \* entries protojson cannot marshal
    rlCount,       \* rate-limit errors the backend has answered with
    slack,         \* pages without progress the backend has answered with
    exhausted,     \* the backend has answered with an empty token
    cursors,       \* cursors opened so far
    lastOkToken,   \* token returned by the most recent successful pager.NextPage
    streak,        \* rate-limit errors since the last successful pager.NextPage
    flags,         \* values of the command's flags (cmd.Flag, viper.GetString)
    args,          \* positional arguments of the command
    from,          \* root.go from
    to,            \* root.go to
    runErr,        \* err of rootCmd.Run
    allFilters,    \* root.go allFilters
    newestFirst,   \* root.go newestFirst
    client         \* logadmin.NewClient has returned a client

vars == << pc, currentToken, rateLimited, ret, err, entries, nextToken, idx,
           req, pagerToken, items, viToken, viMaxSize, callCtxDone, out, logs,
           lastRequest, sentConfigs, opts, cancelled, now, nEntries, bad, rlCount,
           slack, exhausted, cursors, lastOkToken, streak, flags, args, from, to,
           runErr, allFilters, newestFirst, client >>

\* ---------------------------------------------------------------- helpers
Min(a, b) == IF a <= b THEN a ELSE b

\* entries from .. to of the result sequence, in backend order
Slice(lo, hi) == [ i \in 1..(hi - lo + 1) |-> lo + i - 1 ]

EmptyToken == 0

TokenAt(p) == p + 1

TokenPos(t) == IF t = EmptyToken THEN 0 ELSE t - 1

\* ------------------------------------------------------- request building
\* time.Format(time.RFC3339): the instant with whole-second precision
RFC3339(t) == ToString(t \div TicksPerSecond)

\* a string between double quotes: fmt's "%s" in quotes and its %q verb on a
\* string without special characters
Quote(s) == "\"" \o s \o "\""

\* strings.ToLower on the words a filter is made of
ToLower(w) ==
    CASE w = "TIMESTAMP" -> "timestamp"
      [] w = "Timestamp" -> "timestamp"
      [] w = "AND" -> "and"
      [] OTHER -> w

\* strings.Contains(strings.ToLower(filter), "timestamp")
ContainsTimestamp(filter) == \E i \in 1..Len(filter) : ToLower(filter[i]) = "timestamp"

defaultTimestampFilter(filter, clock) ==
    LET dayAgo == clock - Day
    IN  CASE Len(filter) = 0 -> << "timestamp", ">=", Quote(RFC3339(dayAgo)) >>
          [] Len(filter) # 0 /\ ~ContainsTimestamp(filter) ->
                filter \o << "AND", "timestamp", ">=", Quote(RFC3339(dayAgo)) >>
          [] OTHER -> filter

\* EntriesOption.set of pageSize, filter and newestFirst
SetOption(opt, r) ==
    CASE opt.name = "PageSize" -> [r EXCEPT !.PageSize = opt.size]
      [] opt.name = "Filter" -> [r EXCEPT !.Filter = opt.filter]
      [] opt.name = "NewestFirst" -> [r EXCEPT !.OrderBy = "timestamp desc"]
      [] OTHER -> r

RECURSIVE ApplyOptions(_, _)
ApplyOptions(os, r) ==
    IF os = << >> THEN r ELSE ApplyOptions(Tail(os), SetOption(Head(os), r))

listLogEntriesRequest(parent, os, clock) ==
    LET r0 == [ResourceNames |-> << parent >>, Filter |-> << >>,
               OrderBy |-> "", PageSize |-> 0]
        r1 == ApplyOptions(os, r0)
    IN  [r1 EXCEPT !.Filter = defaultTimestampFilter(r1.Filter, clock)]

\* ---------------------------------------------------------- time and text
\* time.Time{}: the zero instant; the clock counts ticks from it
ZeroTime == 0

IsZero(t) == t = ZeroTime

Second == TicksPerSecond

Minute == 60 * Second

Hour == 60 * Minute

\* time.Duration is a signed 64-bit count; the count wraps after DurationRange
\* ticks, scaled so that the day counts explored reach the wrap and the clock
\* is further from the zero instant than any Duration reaches
DurationRange == 4 * Day

MaxDuration == DurationRange \div 2 - 1

MinDuration == -(DurationRange \div 2)

\* arithmetic on time.Duration: the result wraps into the signed range
Duration(x) == ((x - MinDuration) % DurationRange) + MinDuration

Digits == << "0", "1", "2", "3", "4", "5", "6", "7", "8", "9" >>

IsDigit(c) == \E i \in 1..Len(Digits) : Digits[i] = c

DigitValue(c) == (CHOOSE i \in 1..Len(Digits) : Digits[i] = c) - 1

IsUnitChar(c) == ~IsDigit(c) /\ c # "."

\* the number of leading decimal digits of s
RECURSIVE LeadingDigits(_)
LeadingDigits(s) ==
    IF s # << >> /\ IsDigit(Head(s)) THEN 1 + LeadingDigits(Tail(s)) ELSE 0

\* the number of leading characters of s that belong to a unit name
RECURSIVE LeadingUnit(_)
LeadingUnit(s) ==
    IF s # << >> /\ IsUnitChar(Head(s)) THEN 1 + LeadingUnit(Tail(s)) ELSE 0

Drop(s, n) == SubSeq(s, n + 1, Len(s))

\* strconv.Atoi on a string of decimal digits (every digit string explored
\* is within the range of int)
RECURSIVE Atoi(_)
Atoi(s) ==
    IF s = << >> THEN 0 ELSE 10 * Atoi(SubSeq(s, 1, Len(s) - 1)) + DigitValue(s[Len(s)])

\* re.FindStringSubmatch(expression) for ^(?:(\d+)d)?(.*)$ : the dot does not
\* match a newline, so an expression with a newline has no match
FindStringSubmatch(expression) ==
    LET n == LeadingDigits(expression)
    IN  IF \E i \in 1..Len(expression) : expression[i] = "\n"
        THEN [ok |-> FALSE, days |-> << >>, rest |-> << >>]
        ELSE IF n >= 1 /\ n < Len(expression) /\ expression[n + 1] = "d"
             THEN [ok |-> TRUE, days |-> SubSeq(expression, 1, n),
                   rest |-> Drop(expression, n + 1)]
             ELSE [ok |-> TRUE, days |-> << >>, rest |-> expression]

\* time.ParseDuration's unitMap, for the units the clock resolves
UnitTicks(unit) ==
    CASE unit = << "h" >> -> Hour
      [] unit = << "m" >> -> Minute
      [] unit = << "s" >> -> Second
      [] OTHER -> 0

\* the loop of time.ParseDuration over <number><unit> segments (expressions
\* without sign and fraction); a sum beyond the Duration range is an error
RECURSIVE ParseSegments(_, _)
ParseSegments(s, acc) ==
    IF s = << >>
    THEN [ok |-> TRUE, dur |-> acc]
    ELSE LET n == LeadingDigits(s)
             u == LeadingUnit(Drop(s, n))
             ticks == UnitTicks(SubSeq(s, n + 1, n + u))
             v == Atoi(SubSeq(s, 1, n)) * ticks
         IN  IF n = 0 \/ u = 0 \/ ticks = 0 \/ acc + v > MaxDuration
             THEN [ok |-> FALSE, dur |-> 0]
             ELSE ParseSegments(Drop(s, n + u), acc + v)

ParseDuration(s) ==
    IF s = << "0" >> THEN [ok |-> TRUE, dur |-> 0]
    ELSE IF s = << >> THEN [ok |-> FALSE, dur |-> 0]
    ELSE ParseSegments(s, 0)

\* a filter builder that leaves out the parentheses around the user filter
buildFilterNoParens(from_, to_, userFilter) ==
    LET timeFilter ==
            IF ~IsZero(from_) /\ ~IsZero(to_)
            THEN << "timestamp", ">=", Quote(RFC3339(from_)), "AND",
                    "timestamp", "<=", Quote(RFC3339(to_)) >>
            ELSE << >>
    IN  IF timeFilter = << >> THEN userFilter
        ELSE IF userFilter = << >> THEN timeFilter
        ELSE userFilter \o << "AND" >> \o timeFilter

buildFilter(from_, to_, userFilter) ==
    LET timeFilter ==
            IF ~IsZero(from_) /\ ~IsZero(to_)
            THEN << "timestamp", ">=", Quote(RFC3339(from_)), "AND",
                    "timestamp", "<=", Quote(RFC3339(to_)) >>
            ELSE << >>
    IN  IF timeFilter = << >> THEN userFilter
        ELSE IF userFilter = << >> THEN timeFilter
        ELSE << "(" >> \o userFilter \o << ")", "AND" >> \o timeFilter

Option(name, size, filter) == [name |-> name, size |-> size, filter |-> filter]

\* opts as rootCmd.Run builds them
RunOptions(filters, newest) ==
    << Option("PageSize", PageSize, << >>), Option("Filter", 0, filters) >>
    \o (IF newest THEN << Option("NewestFirst", 0, << >>) >> ELSE << >>)

Parent == "projects/p"

\* ------------------------------------------------------------ error values
Error(type, msg, reason, code, quota) ==
    [type |-> type, msg |-> msg, reason |-> reason, code |-> code, quota |-> quota]

NoError == Error("nil", "", "", "OK", FALSE)

\* context.Canceled, as gax returns it from a cancelled retry back-off
ErrCanceled == Error("context", "context canceled", "", "Unknown", FALSE)

\* iterator.Done
ErrDone == Error("iterator", "no more items in iterator", "", "Unknown", FALSE)

\* *apierror.APIError values of the backend
ErrRateLimitQuota ==
    Error("APIError", "quota exceeded", "RATE_LIMIT_EXCEEDED", "ResourceExhausted", TRUE)

ErrRateLimitBare ==
    Error("APIError", "quota exceeded", "RATE_LIMIT_EXCEEDED", "ResourceExhausted", FALSE)

ErrUnauthenticated ==
    Error("APIError", "invalid credentials", "ACCESS_TOKEN_EXPIRED", "Unauthenticated", FALSE)

ErrInternal == Error("APIError", "internal error", "", "Internal", FALSE)

ErrExhaustedOther ==
    Error("APIError", "out of resources", "RESOURCE_EXHAUSTED", "ResourceExhausted", FALSE)

\* the gRPC status a call on a cancelled context ends with
ErrStatusCanceled == Error("APIError", "context canceled", "", "Canceled", FALSE)

\* the error fetchAndProcessLogs builds for an Unauthenticated failure
ErrReauthenticate ==
    Error("errors", "unauthenticated, please run gcloud auth application-default login and try again",
          "", "Unknown", FALSE)

RateLimitErrors == { ErrRateLimitQuota, ErrRateLimitBare }

FatalErrors == { ErrUnauthenticated, ErrInternal, ErrExhaustedOther }

CancelErrors == { ErrCanceled, ErrStatusCanceled }

\* errors.Is(err, context.Canceled) || err.Error() == "no more items in iterator"
IsStop(e) == e.type = "context" \/ e.msg = "no more items in iterator"

\* err.(*apierror.APIError) with Reason() == "RATE_LIMIT_EXCEEDED"
IsRateLimit(e) == e.type = "APIError" /\ e.reason = "RATE_LIMIT_EXCEEDED"

\* status.FromError(err) succeeds with code Unauthenticated
IsUnauthenticated(e) == e.type = "APIError" /\ e.code = "Unauthenticated"

\* ------------------------------------------------------- the command layer
RunError(msg) == Error("errors", msg, "", "Unknown", FALSE)

ErrNoProject == RunError("Error: required flag \"project\" not set")

ErrConflict == RunError("--freshness cannot be used together with --from or --to")

ErrHalfWindow == RunError("either specify both --from and --to, or neither")

ErrInvalidFrom == RunError("invalid --from")

ErrInvalidTo == RunError("invalid --to")

ErrInvalidFreshness == RunError("invalid freshness")

\* the run-time panic of match[1] on a nil slice
ErrPanic == Error("panic", "index out of range", "", "Unknown", FALSE)

\* the error of logadmin.NewClient
ErrNewClient == RunError("could not create the client")

parseFreshness(expression) ==
    LET match == FindStringSubmatch(expression)
        days == Atoi(match.days)
        total1 == IF match.days # << >> THEN Duration(Duration(days) * 24 * Hour) ELSE 0
        other == ParseDuration(match.rest)
    IN  CASE expression = << >> -> [dur |-> 0, err |-> ErrInvalidFreshness]
          [] expression # << >> /\ ~match.ok -> [dur |-> 0, err |-> ErrPanic]
          [] expression # << >> /\ match.ok /\ match.rest = << >> ->
                [dur |-> total1, err |-> NoError]
          [] expression # << >> /\ match.ok /\ match.rest # << >> /\ ~other.ok ->
                [dur |-> 0, err |-> ErrInvalidFreshness]
          [] OTHER -> [dur |-> Duration(total1 + other.dur), err |-> NoError]

\* the instants whose RFC3339 form the --from and --to flags are given
Instants == { ZeroTime, Day, 2 * Day }

\* time.Parse(time.RFC3339, value)
ParseTime(value) ==
    IF \E t \in Instants : RFC3339(t) = value
    THEN [ok |-> TRUE, t |-> CHOOSE t \in Instants : RFC3339(t) = value]
    ELSE [ok |-> FALSE, t |-> ZeroTime]

Window(from_, to_, e) == [from |-> from_, to |-> to_, err |-> e]

\* a resolution of the time flags that accepts a start without an end
determineTimeWindowLenient(fl, clock) ==
    LET fresh == parseFreshness(fl.freshness)
        pFrom == ParseTime(fl.from)
        pTo == ParseTime(fl.to)
    IN  IF fl.freshness # << >>
        THEN IF fl.from # "" \/ fl.to # ""
             THEN Window(ZeroTime, ZeroTime, ErrConflict)
             ELSE IF fresh.err # NoError
                  THEN Window(ZeroTime, ZeroTime, fresh.err)
                  ELSE Window(clock + Duration(-fresh.dur), clock, NoError)
        ELSE IF fl.from # "" /\ fl.to # ""
             THEN IF ~pFrom.ok THEN Window(pFrom.t, ZeroTime, ErrInvalidFrom)
                  ELSE IF ~pTo.ok THEN Window(pFrom.t, pTo.t, ErrInvalidTo)
                  ELSE Window(pFrom.t, pTo.t, NoError)
             ELSE Window(ZeroTime, ZeroTime, NoError)

determineTimeWindow(fl, clock) ==
    LET fresh == parseFreshness(fl.freshness)
        pFrom == ParseTime(fl.from)
        pTo == ParseTime(fl.to)
    IN  IF fl.freshness # << >>
        THEN IF fl.from # "" \/ fl.to # ""
             THEN Window(ZeroTime, ZeroTime, ErrConflict)
             ELSE IF fresh.err # NoError
                  THEN Window(ZeroTime, ZeroTime, fresh.err)
                  ELSE Window(clock + Duration(-fresh.dur), clock, NoError)
        ELSE IF fl.from # "" /\ fl.to # ""
             THEN IF ~pFrom.ok THEN Window(pFrom.t, ZeroTime, ErrInvalidFrom)
                  ELSE IF ~pTo.ok THEN Window(pFrom.t, pTo.t, ErrInvalidTo)
                  ELSE Window(pFrom.t, pTo.t, NoError)
             ELSE IF fl.from = "" /\ fl.to = ""
                  THEN Window(ZeroTime, ZeroTime, NoError)
                  ELSE Window(ZeroTime, ZeroTime, ErrHalfWindow)

\* the flag set of the command: cmd.Flag(name).Value.String(), viper.GetString(name)
Flags(project, freshness, fromFlag, toFlag, order) ==
    [project |-> project, freshness |-> freshness, from |-> fromFlag, to |-> toFlag,
     order |-> order]

Invocation(fl, a) == [flags |-> fl, args |-> a]

\* filter := ""; if len(args) > 0 { filter = args[0] }
UserFilter(a) == IF Len(a) > 0 THEN a[1] ELSE << >>

\* viper.GetString("order") == "desc"
NewestFirst(fl) == fl.order = "desc"

\* the valid invocations the fetch loop is explored with
Commands ==
    { Invocation(Flags("p", << >>, "", "", "desc"), << >>),
      Invocation(Flags("p", << >>, "", "", "asc"), << << "severity>=ERROR" >> >>),
      Invocation(Flags("p", << >>, "", "", "desc"), << << "jsonPayload", ".", "Timestamp", ":", "x" >> >>),
      Invocation(Flags("p", << >>, RFC3339(Day), RFC3339(2 * Day), "asc"), << >>) }

\* ---------------------------------------------------------------- logging
LogLine(msg, id) == [msg |-> msg, id |-> id]

LogDetailed == LogLine("Rate limit exceeded", 0)

LogApiErr == LogLine("apiErr", 0)

LogDot == LogLine(".", 0)

LogExpired == LogLine("Rate limit expired", 0)

LogSkip(id) == LogLine("Error marshaling log entry", id)

\* a handler that logs the detailed message on every rate-limit error
RateLimitLogAlways(e, limited) ==
    IF e.quota THEN << LogDetailed >> ELSE << LogDetailed, LogApiErr >>

\* what handleRateLimitError logs for a rate-limit error
RateLimitLog(e, limited) ==
    IF ~limited
    THEN IF e.quota THEN << LogDetailed >> ELSE << LogDetailed, LogApiErr >>
    ELSE << LogDot >>

\* the value handleRateLimitError returns
handleRateLimitError(e, limited) == IsRateLimit(e)

\* ------------------------------------------------------------------- state
NoRequest == [ResourceNames |-> << >>, Filter |-> << >>, OrderBy |-> "", PageSize |-> 0]

\* the request configuration: resource scope, filter expression, page size, sort order
Config(r) ==
    [ResourceNames |-> r.ResourceNames, Filter |-> r.Filter,
     OrderBy |-> r.OrderBy, PageSize |-> r.PageSize]

\* a ListLogEntries call: the request, the state of ctx and the cursor that issues it
Call(r, pageSize, pageToken, ctxDone, late, cursor) ==
    [ResourceNames |-> r.ResourceNames, Filter |-> r.Filter, OrderBy |-> r.OrderBy,
     PageSize |-> pageSize, PageToken |-> pageToken,
     ctxDone |-> ctxDone, late |-> late, cursor |-> cursor]

NothingSent == Call(NoRequest, 0, EmptyToken, FALSE, FALSE, 0)

\* the locals of fetchAndProcessLogs and the cursor before the first iteration
FetchInit ==
    /\ currentToken = EmptyToken
    /\ rateLimited = FALSE
    /\ ret = NoError
    /\ err = NoError
    /\ entries = << >>
    /\ nextToken = EmptyToken
    /\ idx = 1
    /\ req = NoRequest
    /\ pagerToken = EmptyToken
    /\ items = << >>
    /\ viToken = EmptyToken
    /\ viMaxSize = 0
    /\ callCtxDone = FALSE
    /\ out = << >>
    /\ logs = << >>
    /\ lastRequest = NothingSent
    /\ sentConfigs = {}
    /\ cancelled = FALSE
    /\ now = StartTime
    /\ rlCount = 0
    /\ slack = 0
    /\ exhausted = FALSE
    /\ cursors = 0
    /\ lastOkToken = EmptyToken
    /\ streak = 0

\* fetchAndProcessLogs is entered by a valid invocation
Init ==
    /\ pc = "open"
    /\ FetchInit
    /\ \E c \in Commands :
          LET w == determineTimeWindow(c.flags, StartTime)
          IN  /\ flags = c.flags
              /\ args = c.args
              /\ from = w.from
              /\ to = w.to
              /\ runErr = w.err
              /\ allFilters = buildFilter(w.from, w.to, UserFilter(c.args))
              /\ newestFirst = NewestFirst(c.flags)
              /\ client = TRUE
              /\ opts = RunOptions(buildFilter(w.from, w.to, UserFilter(c.args)),
                                   NewestFirst(c.flags))
    /\ nEntries \in 0..MaxEntries
    /\ bad \in { b \in SUBSET (1..nEntries) : Cardinality(b) <= MaxBad }

loopVars == << currentToken, rateLimited, ret, err, entries, nextToken, idx >>
cursorVars == << req, pagerToken, items, viToken, viMaxSize, callCtxDone >>
sinkVars == << out, logs >>
backendVars == << nEntries, bad, rlCount, slack, exhausted >>
requestVars == << lastRequest, sentConfigs >>
ghostVars == << cursors, lastOkToken, streak >>
runVars == << flags, args, from, to, runErr, allFilters, newestFirst, client >>

\* ------------------------------------------------------------ the cursor
\* a pager that forgets the saved token and starts from the beginning
PagerStartFresh(token) == EmptyToken

\* iterator.NewPager(it, 1000, currentToken): the token the new pager starts from
PagerStart(token) == token

\* it := client.Entries(ctx, opts...); pager := iterator.NewPager(it, 1000, currentToken)
OpenCursor ==
    /\ pc = "open"
    /\ req' = listLogEntriesRequest(Parent, opts, now)
    /\ viMaxSize' = req'.PageSize
    /\ viToken' = EmptyToken
    /\ items' = << >>
    /\ pagerToken' = PagerStart(currentToken)
    /\ cursors' = cursors + 1
    /\ pc' = "nextpage"
    /\ UNCHANGED << callCtxDone, loopVars, sinkVars, requestVars, opts, runVars, cancelled, now,
                    backendVars, lastOkToken, streak >>

\* a fetch that asks for a whole page whatever the buffer already holds
iterFetchFull(pageSize, pageToken) == [MaxSize |-> PageSize, Token |-> pageToken]

\* iterFetch's first two statements: the vkit iterator is pointed at the page to fetch
iterFetch(pageSize, pageToken) == [MaxSize |-> pageSize, Token |-> pageToken]

\* nextToken, err := pager.NextPage(&entries): the pager starts to fill its buffer
NextPage ==
    /\ pc = "nextpage"
    /\ LET pi == iterFetch(PageSize - Len(items), pagerToken)
       IN  /\ viMaxSize' = pi.MaxSize
           /\ viToken' = pi.Token
    /\ entries' = << >>
    /\ callCtxDone' = cancelled
    /\ pc' = "rpc"
    /\ UNCHANGED << currentToken, rateLimited, ret, err, nextToken, idx, req, pagerToken,
                    items, sinkVars, requestVars, opts, runVars, cancelled, now, backendVars,
                    ghostVars >>

\* the vkit iterator hands one ListLogEntries request to the backend client
SendRequest ==
    /\ pc = "rpc"
    /\ lastRequest' = Call(req, viMaxSize, viToken, cancelled, callCtxDone, cursors)
    /\ sentConfigs' = sentConfigs \cup { Config(lastRequest') }
    /\ pc' = "inflight"
    /\ UNCHANGED << loopVars, cursorVars, sinkVars, opts, runVars, cancelled, now, backendVars,
                    ghostVars >>

\* what the pager and iterFetch do with a page the backend returned
PageComplete(buf, nxt) == nxt = EmptyToken \/ Len(buf) >= PageSize

ReceivePage ==
    /\ pc = "inflight"
    /\ ~lastRequest.ctxDone
    /\ LET pos == TokenPos(viToken)
       IN \E k \in 0..Min(viMaxSize, nEntries - pos) :
          \E nxt \in { TokenAt(pos + k) } \cup (IF pos + k = nEntries THEN { EmptyToken } ELSE {}) :
            LET got == Slice(pos + 1, pos + k)
                stall == nxt # EmptyToken /\ (k = 0 \/ pos + k = nEntries)
                buf == items \o got
            IN  /\ stall => rlCount + slack < MaxFaults
                /\ slack' = IF stall THEN slack + 1 ELSE slack
                /\ exhausted' = (exhausted \/ nxt = EmptyToken)
                /\ IF got = << >>
                   THEN IF nxt # EmptyToken
                        THEN \* the vkit iterator asks for the next page at once
                             /\ viToken' = nxt
                             /\ pc' = "rpc"
                             /\ UNCHANGED << err, entries, nextToken, pagerToken, items,
                                             viMaxSize, lastOkToken, streak >>
                        ELSE \* no item and no token: iterator.Done, the pager drops its buffer
                             /\ viToken' = nxt
                             /\ err' = ErrDone
                             /\ items' = << >>
                             /\ pc' = "classify"
                             /\ UNCHANGED << entries, nextToken, pagerToken, viMaxSize,
                                             lastOkToken, streak >>
                   ELSE IF PageComplete(buf, nxt)
                        THEN /\ entries' = buf
                             /\ items' = << >>
                             /\ pagerToken' = nxt
                             /\ viToken' = nxt
                             /\ nextToken' = nxt
                             /\ err' = NoError
                             /\ lastOkToken' = nxt
                             /\ streak' = 0
                             /\ pc' = "page"
                             /\ UNCHANGED viMaxSize
                        ELSE \* the page is short: the pager fetches the rest
                             LET pi == iterFetch(PageSize - Len(buf), nxt)
                             IN  /\ items' = buf
                                 /\ pagerToken' = nxt
                                 /\ viMaxSize' = pi.MaxSize
                                 /\ viToken' = pi.Token
                                 /\ pc' = "rpc"
                                 /\ UNCHANGED << err, entries, nextToken, lastOkToken, streak >>
    /\ UNCHANGED << currentToken, rateLimited, ret, idx, req, callCtxDone, sinkVars,
                    requestVars, opts, runVars, cancelled, now, nEntries, bad, rlCount, cursors >>

\* the errors the backend client may answer the request in flight with
PossibleErrors ==
    IF lastRequest.ctxDone
    THEN CancelErrors
    ELSE (IF cancelled THEN CancelErrors ELSE {})
         \cup (IF rlCount + slack < MaxFaults THEN RateLimitErrors ELSE {})
         \cup FatalErrors

\* the request fails: iterFetch returns the error, the pager drops its buffer
ReceiveError ==
    /\ pc = "inflight"
    /\ \E e \in PossibleErrors :
        /\ err' = e
        /\ rlCount' = IF IsRateLimit(e) THEN rlCount + 1 ELSE rlCount
    /\ items' = << >>
    /\ pc' = "classify"
    /\ UNCHANGED << currentToken, rateLimited, ret, entries, nextToken, idx, req, pagerToken,
                    viToken, viMaxSize, callCtxDone, sinkVars, requestVars, opts, runVars, cancelled,
                    now, nEntries, bad, slack, exhausted, ghostVars >>

\* ------------------------------------------------------- fetchAndProcessLogs
\* error handling that gives up on a rate-limit error met while already rate limited
ClassifyCapped(e, limited) ==
    CASE IsStop(e) -> "stop"
      [] ~IsStop(e) /\ handleRateLimitError(e, limited) /\ ~limited -> "retry"
      [] ~IsStop(e) /\ ~handleRateLimitError(e, limited) /\ IsUnauthenticated(e) -> "reauthenticate"
      [] OTHER -> "fatal"

\* error handling without the Unauthenticated branch
ClassifyNoReauth(e, limited) ==
    CASE IsStop(e) -> "stop"
      [] ~IsStop(e) /\ handleRateLimitError(e, limited) -> "retry"
      [] OTHER -> "fatal"

\* error handling that takes every gRPC status error for an authentication failure
ClassifyAnyStatus(e, limited) ==
    CASE IsStop(e) -> "stop"
      [] ~IsStop(e) /\ handleRateLimitError(e, limited) -> "retry"
      [] ~IsStop(e) /\ ~handleRateLimitError(e, limited) /\ e.type = "APIError" -> "reauthenticate"
      [] OTHER -> "fatal"

\* the branch the error handling of the loop takes for err
Classify(e, limited) ==
    CASE IsStop(e) -> "stop"
      [] ~IsStop(e) /\ handleRateLimitError(e, limited) -> "retry"
      [] ~IsStop(e) /\ ~handleRateLimitError(e, limited) /\ IsUnauthenticated(e) -> "reauthenticate"
      [] OTHER -> "fatal"

\* time.Sleep(1 * time.Second)
SleepTicks == 1 * TicksPerSecond

\* if err != nil { ... }
HandleError ==
    /\ pc = "classify"
    /\ LET branch == Classify(err, rateLimited)
       IN  CASE branch = "stop" ->
                    /\ pc' = "done"
                    /\ ret' = NoError
                    /\ UNCHANGED << logs, streak >>
             [] branch = "retry" ->
                    /\ logs' = logs \o RateLimitLog(err, rateLimited)
                    /\ streak' = streak + 1
                    /\ pc' = "sleep"
                    /\ UNCHANGED ret
             [] branch = "reauthenticate" ->
                    /\ pc' = "done"
                    /\ ret' = ErrReauthenticate
                    /\ UNCHANGED << logs, streak >>
             [] OTHER ->
                    /\ pc' = "done"
                    /\ ret' = err
                    /\ UNCHANGED << logs, streak >>
    /\ UNCHANGED << currentToken, rateLimited, err, entries, nextToken, idx, cursorVars, out,
                    requestVars, opts, runVars, cancelled, now, backendVars, cursors, lastOkToken >>

\* handleRateLimitError returns true after its sleep; the loop breaks to re-create the cursor
Wake ==
    /\ pc = "sleep"
    /\ now' = now + SleepTicks
    /\ rateLimited' = TRUE
    /\ err' = NoError
    /\ pc' = "open"
    /\ UNCHANGED << currentToken, ret, entries, nextToken, idx, cursorVars, sinkVars,
                    requestVars, opts, runVars, cancelled, backendVars, ghostVars >>

\* a loop that logs the notice after every page
ExpiredNoticeAlways(limited) == << LogExpired >>

\* what the loop logs once a page was fetched
ExpiredNotice(limited) == IF limited THEN << LogExpired >> ELSE << >>

\* if rateLimited { log.Println("Rate limit expired"); rateLimited = false }
PageFetched ==
    /\ pc = "page"
    /\ logs' = logs \o ExpiredNotice(rateLimited)
    /\ rateLimited' = FALSE
    /\ idx' = 1
    /\ pc' = "emit"
    /\ UNCHANGED << currentToken, ret, err, entries, nextToken, cursorVars, out, requestVars,
                    opts, runVars, cancelled, now, backendVars, ghostVars >>

\* protojson.Marshal succeeds on the entry
Marshalable(entry) == entry \notin bad

\* a marshalling failure that leaves the range loop (break)
SkipRest(i, page) == Len(page) + 1

\* continue: the range loop goes on with the entry after the one that failed
SkipTo(i, page) == i + 1

\* one iteration of: for _, entry := range entries
EmitEntry ==
    /\ pc = "emit"
    /\ idx <= Len(entries)
    /\ IF Marshalable(entries[idx])
       THEN /\ out' = Append(out, entries[idx])
            /\ idx' = idx + 1
            /\ UNCHANGED logs
       ELSE /\ logs' = Append(logs, LogSkip(entries[idx]))
            /\ idx' = SkipTo(idx, entries)
            /\ UNCHANGED out
    /\ UNCHANGED << pc, currentToken, rateLimited, ret, err, entries, nextToken, cursorVars,
                    requestVars, opts, runVars, cancelled, now, backendVars, ghostVars >>

\* a loop that never takes the empty token for the end
NoMorePagesNever(token) == FALSE

\* nextToken == ""
NoMorePages(token) == token = EmptyToken

\* a loop that leaves the inner loop after every page and opens a new cursor
AfterPageReopen(token) == IF NoMorePages(token) THEN "done" ELSE "open"

\* break outer on the empty token, else the inner loop goes on with the same pager
AfterPage(token) == IF NoMorePages(token) THEN "done" ELSE "nextpage"

\* if nextToken == "" { break outer }; currentToken = nextToken
EndPage ==
    /\ pc = "emit"
    /\ idx > Len(entries)
    /\ pc' = AfterPage(nextToken)
    /\ IF NoMorePages(nextToken)
       THEN /\ ret' = NoError
            /\ UNCHANGED currentToken
       ELSE /\ currentToken' = nextToken
            /\ UNCHANGED ret
    /\ UNCHANGED << rateLimited, err, entries, nextToken, idx, cursorVars, sinkVars,
                    requestVars, opts, runVars, cancelled, now, backendVars, ghostVars >>

\* the caller cancels ctx (user interrupt)
Cancel ==
    /\ pc # "done"
    /\ ~cancelled
    /\ cancelled' = TRUE
    /\ UNCHANGED << pc, loopVars, cursorVars, sinkVars, requestVars, opts, runVars, now, backendVars,
                    ghostVars >>

Next ==
    \/ OpenCursor
    \/ NextPage
    \/ SendRequest
    \/ ReceivePage
    \/ ReceiveError
    \/ HandleError
    \/ Wake
    \/ PageFetched
    \/ EmitEntry
    \/ EndPage
    \/ Cancel

Spec == Init /\ [][Next]_vars

\* the steps of fetchAndProcessLogs and of the cursor it drives
LoopStep ==
    \/ OpenCursor
    \/ NextPage
    \/ SendRequest
    \/ HandleError
    \/ Wake
    \/ PageFetched
    \/ EmitEntry
    \/ EndPage

\* the loop is a single thread that runs on while it can, and the backend
\* answers every request; progress does not depend on the filter, so the runs
\* of the plain invocation are followed
FairInit == Init /\ flags = Flags("p", << >>, "", "", "desc") /\ args = << >>

FairSpec == FairInit /\ [][Next]_vars /\ WF_vars(LoopStep) /\ WF_vars(ReceivePage \/ ReceiveError)

\* ------------------------------------------------------------ rootCmd.Run
\* the characters --freshness expressions are made of
Alphabet == { "1", "d", "h", "x", "\n" }

Expressions == UNION { [1..n -> Alphabet] : n \in 0..MaxExprLen }

TimeFlagValues == { "" } \cup { RFC3339(t) : t \in Instants } \cup { "yesterday" }

UserFilters == { << >>, << "severity>=ERROR" >>, << "jsonPayload", ".", "Timestamp", ":", "x" >> }

\* the invocations explored: every freshness expression with and without
\* explicit bounds, and every combination of the other flags
Invocations ==
    { Invocation(Flags("p", e, f, t, "desc"), << >>) :
        e \in Expressions, f \in { "", RFC3339(Day) }, t \in { "", RFC3339(2 * Day) } }
    \cup
    { Invocation(Flags(p, e, f, t, o), a) :
        p \in { "", "p" }, e \in { << >>, << "1", "h" >> },
        f \in TimeFlagValues, t \in TimeFlagValues, o \in { "asc", "desc", "up" },
        a \in { << >> } \cup { << u >> : u \in UserFilters \ { << >> } } }

CmdInit ==
    /\ pc = "run"
    /\ FetchInit
    /\ \E c \in Invocations : flags = c.flags /\ args = c.args
    /\ from = ZeroTime
    /\ to = ZeroTime
    /\ runErr = NoError
    /\ allFilters = << >>
    /\ newestFirst = FALSE
    /\ client = FALSE
    /\ opts = << >>
    /\ nEntries = 0
    /\ bad = {}

fetchVars == << loopVars, cursorVars, sinkVars, backendVars, requestVars, ghostVars,
               cancelled, now >>

\* projectId := viper.GetString("project"); log.Fatal when it is empty
CheckProject ==
    /\ pc = "run"
    /\ IF flags.project = ""
       THEN runErr' = ErrNoProject /\ pc' = "exit"
       ELSE runErr' = runErr /\ pc' = "window"
    /\ UNCHANGED << flags, args, from, to, allFilters, newestFirst, client, opts, fetchVars >>

\* from, to, err := determineTimeWindow(cmd); cobra.CheckErr(err)
DetermineTimeWindow ==
    /\ pc = "window"
    /\ LET w == determineTimeWindow(flags, now)
       IN  /\ from' = w.from
           /\ to' = w.to
           /\ runErr' = w.err
           /\ pc' = IF w.err = NoError THEN "filter" ELSE "exit"
    /\ UNCHANGED << flags, args, allFilters, newestFirst, client, opts, fetchVars >>

\* allFilters := buildFilter(from, to, filter); newestFirst := order == "desc"
BuildFilter ==
    /\ pc = "filter"
    /\ allFilters' = buildFilter(from, to, UserFilter(args))
    /\ newestFirst' = NewestFirst(flags)
    /\ pc' = "client"
    /\ UNCHANGED << flags, args, from, to, runErr, client, opts, fetchVars >>

\* client, err := logadmin.NewClient(ctx, projectId); cobra.CheckErr(err)
NewClient ==
    /\ pc = "client"
    /\ \/ client' = TRUE /\ runErr' = runErr /\ pc' = "opts"
       \/ client' = client /\ runErr' = ErrNewClient /\ pc' = "exit"
    /\ UNCHANGED << flags, args, from, to, allFilters, newestFirst, opts, fetchVars >>

\* opts := ...; err = fetchAndProcessLogs(ctx, client, opts)
BuildOptions ==
    /\ pc = "opts"
    /\ opts' = RunOptions(allFilters, newestFirst)
    /\ pc' = "open"
    /\ UNCHANGED << runVars, fetchVars >>

\* rootCmd.Run up to the first page request of fetchAndProcessLogs
CmdNext ==
    \/ CheckProject
    \/ DetermineTimeWindow
    \/ BuildFilter
    \/ NewClient
    \/ BuildOptions
    \/ OpenCursor
    \/ NextPage
    \/ SendRequest

CmdSpec == CmdInit /\ [][CmdNext]_vars

\* ================================================================= claims
\* the lines stdout holds once the first n entries of the result sequence were processed
Emitted(n) == SelectSeq(Slice(1, n), Marshalable)

Unmarshalable(entry) == ~Marshalable(entry)

\* the request about to be sent is the first one of its cursor
FirstOfCursor == lastRequest.cursor # cursors

IsSuffix(s, t) == Len(s) <= Len(t) /\ SubSeq(t, Len(t) - Len(s) + 1, Len(t)) = s

\* C1: whenever fetchAndProcessLogs returns nil after the backend's result set
\* was exhausted and without cancellation, stdout holds every marshalable entry
\* of the result sequence exactly once and in backend order, however the
\* backend split the results into pages.
C1_AllEntriesEmitted ==
    (pc = "done" /\ ret = NoError /\ exhausted /\ ~cancelled) => out = Emitted(nEntries)

\* C2: a rate-limit error leaves currentToken unchanged, the first request of
\* the cursor opened after the pause carries the token returned by the most
\* recent successful pager.NextPage (the empty token if there was none), and
\* the output up to the resumed position has no entry skipped or repeated.
C2_ResumeSameToken ==
    /\ [][ (pc \in { "classify", "sleep" } /\ (pc = "classify" => IsRateLimit(err)))
            => currentToken' = currentToken ]_vars
    /\ [][ (pc = "rpc" /\ pc' = "inflight" /\ rateLimited /\ FirstOfCursor)
            => /\ lastRequest'.PageToken = lastOkToken
               /\ lastRequest'.PageToken = currentToken ]_vars
    /\ [](pc \in { "open", "nextpage", "rpc", "inflight", "classify", "sleep" }
            => out = Emitted(TokenPos(currentToken)))

\* a retried request is in flight for a position past the start
C2_Witness ==
    /\ pc = "inflight"
    /\ rateLimited
    /\ cursors > 1
    /\ currentToken # EmptyToken
    /\ lastRequest.PageToken = currentToken
    /\ out # << >>

\* C3: once cancellation is signalled fetchAndProcessLogs returns nil and no
\* further page request is issued.
C3_CancelStopsRequests ==
    /\ (cancelled /\ pc = "done") => ret = NoError
    /\ ~lastRequest.late

\* C4: the loop stops at the first successful fetch that returns the empty
\* token: no fetch follows it, the entries of that last page are emitted, and
\* fetchAndProcessLogs returns nil.
C4_StopsAtEmptyToken ==
    /\ exhausted => pc \in { "page", "emit", "classify", "done" }
    /\ (exhausted /\ pc = "classify") => err = ErrDone
    /\ (exhausted /\ pc \in { "page", "emit" }) => nextToken = EmptyToken
    /\ (exhausted /\ pc = "done")
          => /\ ret = NoError
             /\ idx > Len(entries)
             /\ IsSuffix(SelectSeq(entries, Marshalable), out)

\* the loop has returned after a second page that was not empty, with a
\* rate-limit error on the way
C4_Witness ==
    /\ pc = "done"
    /\ exhausted
    /\ currentToken # EmptyToken
    /\ entries # << >>
    /\ rlCount > 0

\* C5: a rate-limit error never ends the loop and is never returned: each one
\* leads to a pause of one second and then to a new cursor, as often as the
\* backend answers with one.
C5_RateLimitNeverSurfaces ==
    /\ [][ (pc = "classify" /\ IsRateLimit(err) /\ pc' # pc)
            => (pc' = "sleep" /\ ret' = ret) ]_vars
    /\ [][ (pc = "sleep" /\ pc' # pc)
            => (pc' = "open" /\ now' = now + TicksPerSecond /\ ret' = ret) ]_vars
    /\ [](pc = "done" => (~IsRateLimit(ret) /\ ~IsRateLimit(err)))

\* the loop retries after as many consecutive rate-limit errors as the backend gave
C5_Witness ==
    /\ pc = "inflight"
    /\ streak = MaxFaults
    /\ streak >= 2

\* C6: every page request issued after a rate-limit pause has the same request
\* configuration (resource scope, filter expression, page size, sort order) as
\* the requests issued before it.
C6_SameConfiguration ==
    lastRequest.cursor > 1 => sentConfigs = { Config(lastRequest) }

\* the entries the range loop has gone through so far
Processed ==
    Slice(1, TokenPos(currentToken))
        \o (IF pc = "emit" THEN SubSeq(entries, 1, idx - 1) ELSE << >>)

IsSkipLine(l) == l.msg = "Error marshaling log entry"

SkipLines(es) == [ i \in 1..Len(es) |-> LogSkip(es[i]) ]

\* C7: an entry that cannot be marshalled is skipped and logged with its id,
\* the loop goes on with the next entry and the later pages, stdout holds the
\* other entries in their order, and the value to return is not touched.
C7_MarshalFailureSkipped ==
    /\ [][ (pc = "emit" /\ idx <= Len(entries) /\ ~Marshalable(entries[idx]) /\ idx' # idx)
            => /\ pc' = "emit"
               /\ idx' = idx + 1
               /\ out' = out
               /\ logs' = Append(logs, LogSkip(entries[idx]))
               /\ ret' = ret
               /\ currentToken' = currentToken
               /\ nextToken' = nextToken ]_vars
    /\ [](pc \in { "nextpage", "rpc", "inflight", "page", "emit" }
            => /\ out = SelectSeq(Processed, Marshalable)
               /\ SelectSeq(logs, IsSkipLine) = SkipLines(SelectSeq(Processed, Unmarshalable)))

\* a full page whose first entry could not be marshalled has been gone through
\* and a later page is being emitted
C7_Witness ==
    /\ pc = "emit"
    /\ idx > 1
    /\ Marshalable(entries[idx - 1])
    /\ \E b \in bad : b + 1 <= TokenPos(currentToken)
    /\ Len(out) = Len(Processed) - 1

\* C8: an Unauthenticated failure ends the loop at once with the
\* re-authentication error: no retry, no pause, no further request and no
\* further output, also in the middle of a rate-limited streak.
C8_UnauthenticatedStops ==
    /\ [][ (pc = "classify" /\ IsUnauthenticated(err) /\ pc' # pc)
            => /\ pc' = "done"
               /\ ret' = ErrReauthenticate
               /\ out' = out
               /\ logs' = logs
               /\ lastRequest' = lastRequest
               /\ cursors' = cursors
               /\ now' = now ]_vars
    /\ [][ pc # "done" ]_vars

\* the loop has returned the re-authentication error in a rate-limited streak
C8_Witness ==
    /\ pc = "done"
    /\ ret = ErrReauthenticate
    /\ err = ErrUnauthenticated
    /\ rateLimited
    /\ streak > 0

\* C9: an error that is neither a stop signal, a rate limit nor Unauthenticated
\* ends the loop and is returned as it is, without retry and without a further
\* request.
C9_OtherErrorVerbatim ==
    /\ [][ (pc = "classify" /\ ~IsStop(err) /\ ~IsRateLimit(err) /\ ~IsUnauthenticated(err)
                /\ pc' # pc)
            => /\ pc' = "done"
               /\ ret' = err
               /\ lastRequest' = lastRequest
               /\ cursors' = cursors
               /\ now' = now ]_vars
    /\ [][ pc # "done" ]_vars
    /\ [](pc = "done" /\ ret \notin { NoError, ErrReauthenticate } => ret = err)

\* the loop has returned a backend error of another kind met on a later page
C9_Witness ==
    /\ pc = "done"
    /\ ret \in { ErrInternal, ErrExhaustedOther }
    /\ lastRequest.PageToken # EmptyToken

IsDetailed(l) == l = LogDetailed

\* C10: within a streak of rate-limit errors with no successful page fetch in
\* between, the detailed message is logged once, on the first error, and every
\* later error logs the progress dot; two detailed messages are separated by a
\* successful page fetch.
C10_OneDetailedPerStreak ==
    /\ [][ (pc = "classify" /\ IsRateLimit(err) /\ pc' # pc)
            => IF streak = 0
               THEN /\ SubSeq(logs', 1, Len(logs) + 1) = Append(logs, LogDetailed)
                    /\ \A i \in (Len(logs) + 2)..Len(logs') : logs'[i] = LogApiErr
               ELSE logs' = Append(logs, LogDot) ]_vars
    /\ [][ (\E i \in (Len(logs) + 1)..Len(logs') : logs'[i] = LogExpired)
            => (pc = "page" /\ rateLimited /\ streak = 0) ]_vars
    /\ [](\A i, j \in 1..Len(logs) :
            (i < j /\ logs[i] = LogDetailed /\ logs[j] = LogDetailed)
                => \E k \in (i + 1)..(j - 1) : logs[k] = LogExpired)

\* a second consecutive rate-limit error has been handled
C10_Witness ==
    /\ pc = "sleep"
    /\ streak >= 2
    /\ logs[Len(logs)] = LogDot
    /\ Len(SelectSeq(logs, IsDetailed)) = 1

\* ---------------------------------------------------------------- C11..C20
\* none of --freshness, --from and --to is supplied
NoTimeFlags == flags.freshness = << >> /\ flags.from = "" /\ flags.to = ""

\* the predicate that keeps the entries of the 24 hours before the clock value
LastDay(clock) == << "timestamp", ">=", Quote(RFC3339(clock - Day)) >>

\* C11: without --freshness, --from and --to the command layer adds no time
\* predicate to the user filter, and the filter of the request sent to the
\* backend restricts the entries, for every user filter, to the 24 hours
\* before the request was built.
C11_DefaultMaximumAgeOneDay ==
    (NoTimeFlags /\ pc = "inflight")
        => /\ allFilters = UserFilter(args)
           /\ lastRequest.Filter =
                 (IF UserFilter(args) = << >> THEN << >> ELSE UserFilter(args) \o << "AND" >>)
                 \o LastDay(now)

\* the expression is <digits>d<remainder> with n digits
HasDays(e, n) == n + 1 <= Len(e) /\ e[n + 1] = "d" /\ \A i \in 1..n : IsDigit(e[i])

DayCount(e) ==
    IF \E n \in 1..Len(e) : HasDays(e, n)
    THEN Atoi(SubSeq(e, 1, CHOOSE n \in 1..Len(e) : HasDays(e, n)))
    ELSE 0

Remainder(e) ==
    IF \E n \in 1..Len(e) : HasDays(e, n)
    THEN Drop(e, (CHOOSE n \in 1..Len(e) : HasDays(e, n)) + 1)
    ELSE e

ValidFreshness(e) ==
    e # << >> /\ (Remainder(e) = << >> \/ ParseDuration(Remainder(e)).ok)

RemainderTicks(e) == IF Remainder(e) = << >> THEN 0 ELSE ParseDuration(Remainder(e)).dur

\* the examples of TestParseFreshness
FreshnessExamples ==
    /\ parseFreshness(<< "1", "d" >>) = [dur |-> 24 * Hour, err |-> NoError]
    /\ parseFreshness(<< "1", "d", "1", "2", "h", "3", "0", "m" >>)
          = [dur |-> 36 * Hour + 30 * Minute, err |-> NoError]
    /\ parseFreshness(<< "2", "h" >>) = [dur |-> 2 * Hour, err |-> NoError]
    /\ parseFreshness(<< >>).err # NoError
    /\ parseFreshness(<< "x", "d" >>).err # NoError
    /\ parseFreshness(<< "1", "d", "x", "y", "z" >>).err # NoError

\* a lone --freshness has gone through determineTimeWindow
LoneFreshness ==
    /\ pc \in { "filter", "exit" }
    /\ flags.project # ""
    /\ flags.freshness # << >>
    /\ flags.from = ""
    /\ flags.to = ""

\* C12: for every valid expression <digits>d<remainder>, <remainder> or
\* <digits>d, parseFreshness returns days * 24h plus the parsed remainder,
\* whatever the day count; the empty string, a non-numeric day count and an
\* unparseable remainder give no duration; the examples of the test hold.
C12_FreshnessIsDaysPlusRemainder ==
    /\ FreshnessExamples
    /\ LoneFreshness =>
          IF ValidFreshness(flags.freshness)
          THEN /\ runErr = NoError
               /\ to - from = DayCount(flags.freshness) * 24 * Hour
                                + RemainderTicks(flags.freshness)
          ELSE runErr # NoError

\* timestamp >= "<RFC3339 from>" AND timestamp <= "<RFC3339 to>"
TimePredicate(start, end) ==
    << "timestamp", ">=", Quote(RFC3339(start)), "AND",
       "timestamp", "<=", Quote(RFC3339(end)) >>

\* a time window is given to buildFilter: both instants are present
WindowGiven == ~IsZero(from) /\ ~IsZero(to)

\* C13: buildFilter returns the user filter unchanged when no time window is
\* given (the empty string when there is no user filter either), exactly the
\* time predicate when only a window is given, and (<user filter>) AND <time
\* predicate> when both are given.
C13_BuildFilterCases ==
    pc \in { "client", "opts", "open" }
        => LET user == UserFilter(args)
           IN  /\ ~WindowGiven => allFilters = user
               /\ (~WindowGiven /\ user = << >>) => allFilters = << >>
               /\ (WindowGiven /\ user = << >>) => allFilters = TimePredicate(from, to)
               /\ (WindowGiven /\ user # << >>)
                     => allFilters = << "(" >> \o user \o << ")", "AND" >>
                                        \o TimePredicate(from, to)

\* a user filter and an explicit window have been combined
C13_Witness ==
    /\ pc = "client"
    /\ flags.from = RFC3339(Day)
    /\ flags.to = RFC3339(2 * Day)
    /\ UserFilter(args) = << "severity>=ERROR" >>
    /\ Len(allFilters) = 11
    /\ allFilters[1] = "("

IsTimestamp(value) == \E t \in Instants : value = ToString(t \div TicksPerSecond)

\* C14: determineTimeWindow rejects freshness together with from or to, and a
\* from without a to or a to without a from; with none of them it succeeds
\* with the zero window, with a valid from and to it succeeds with those
\* instants, and with a lone valid freshness it succeeds with to = now and
\* from = now - duration.
C14_ExactlyOneTimeWindow ==
    [][ (pc = "window" /\ pc' # pc)
        => LET fresh == flags.freshness # << >>
               hasFrom == flags.from # ""
               hasTo == flags.to # ""
           IN  /\ (fresh /\ (hasFrom \/ hasTo)) => (runErr' = ErrConflict /\ pc' = "exit")
               /\ (~fresh /\ hasFrom # hasTo) => (runErr' = ErrHalfWindow /\ pc' = "exit")
               /\ (~fresh /\ ~hasFrom /\ ~hasTo)
                     => (runErr' = NoError /\ IsZero(from') /\ IsZero(to') /\ pc' = "filter")
               /\ (~fresh /\ hasFrom /\ hasTo)
                     => IF IsTimestamp(flags.from) /\ IsTimestamp(flags.to)
                        THEN /\ runErr' = NoError
                             /\ pc' = "filter"
                             /\ from' \in Instants /\ RFC3339(from') = flags.from
                             /\ to' \in Instants /\ RFC3339(to') = flags.to
                        ELSE runErr' \in { ErrInvalidFrom, ErrInvalidTo } /\ pc' = "exit"
               /\ (fresh /\ ~hasFrom /\ ~hasTo)
                     => IF ValidFreshness(flags.freshness)
                        THEN /\ runErr' = NoError
                             /\ pc' = "filter"
                             /\ to' = now
                             /\ from' = now - parseFreshness(flags.freshness).dur
                        ELSE runErr' # NoError /\ pc' = "exit" ]_vars

\* a lone freshness of one day and one hour has been resolved
C14_Witness ==
    /\ pc = "filter"
    /\ flags.freshness = << "1", "d", "1", "h" >>
    /\ flags.from = ""
    /\ flags.to = ""
    /\ to = now
    /\ from = now - 25 * Hour

\* the input of the run is invalid
InvalidInput ==
    \/ flags.project = ""
    \/ flags.freshness # << >> /\ (flags.from # "" \/ flags.to # "")
    \/ flags.freshness # << >> /\ ~ValidFreshness(flags.freshness)
    \/ (flags.from = "") # (flags.to = "")
    \/ flags.from # "" /\ ~IsTimestamp(flags.from)
    \/ flags.to # "" /\ ~IsTimestamp(flags.to)
    \/ flags.order \notin { "asc", "desc" }

\* C15: a run whose input is invalid (missing project, conflicting time
\* flags, a start without an end, a malformed freshness or timestamp, an
\* --order that is neither asc nor desc) ends before a backend client is
\* created and before a page request is issued.
C15_InvalidInputNoBackendCall ==
    InvalidInput => (~client /\ pc \notin { "opts", "open", "nextpage", "rpc", "inflight" }
                        /\ lastRequest = NothingSent)

\* the filter holds a time predicate built from a window
HasTimePredicate(filter) ==
    \E i \in 1..Len(filter) : i + 6 <= Len(filter) /\ filter[i + 4] = "timestamp"
                                 /\ filter[i + 5] = "<="

\* C19: a window determineTimeWindow resolved has both instants set or both
\* unset, and an explicit from/to pair or a freshness that was resolved
\* always yields a time predicate in the filter.
C19_WindowBothOrNeither ==
    pc \in { "client", "opts", "open" }
        => /\ IsZero(from) <=> IsZero(to)
           /\ ~NoTimeFlags => HasTimePredicate(allFilters)

\* rate-limit errors the loop has handled (the pause of the last one may be going on)
Handled == rlCount - (IF pc = "classify" /\ IsRateLimit(err) THEN 1 ELSE 0)

\* C16: the cursor is re-created only after a rate-limit pause: the number of
\* cursors opened is 1 plus the number of rate-limit errors handled, and a
\* request that follows a successful page fetch with no rate-limit error in
\* between is issued by the same cursor.
C16_CursorPerRateLimitPause ==
    /\ [](cursors = Handled + (IF pc \in { "sleep", "open" } THEN 0 ELSE 1))
    /\ [](pc = "done" => cursors = 1 + rlCount)
    /\ [][ cursors' # cursors
            => (cursors' = cursors + 1 /\ pc = "open" /\ (cursors = 0 \/ rateLimited)) ]_vars
    /\ [][ (pc = "rpc" /\ pc' = "inflight" /\ streak = 0 /\ lastRequest.cursor # 0)
            => lastRequest'.cursor = lastRequest.cursor ]_vars

\* three pages were fetched by two cursors with one rate-limit pause
C16_Witness ==
    /\ pc = "done"
    /\ rlCount = 1
    /\ cursors = 2
    /\ Len(out) > PageSize
    /\ lastRequest.cursor = 2
    /\ TokenPos(lastRequest.PageToken) >= PageSize

IsExpired(l) == l = LogExpired

\* C17: the Rate limit expired notice is logged exactly once for each
\* rate-limited streak that a successful page fetch ends, at that fetch and
\* before any entry of the page is written; no other successful fetch logs
\* it, and the rate-limited flag is false once it was logged.
C17_ExpiredNoticeOncePerStreak ==
    /\ [][ (pc = "inflight" /\ pc' = "page") => (rateLimited <=> streak > 0) ]_vars
    /\ [][ (pc = "page" /\ pc' # pc)
            => /\ logs' = (IF rateLimited THEN Append(logs, LogExpired) ELSE logs)
               /\ ~rateLimited'
               /\ out' = out
               /\ idx' = 1
               /\ pc' = "emit" ]_vars
    /\ [][ pc # "page"
            => Len(SelectSeq(logs', IsExpired)) = Len(SelectSeq(logs, IsExpired)) ]_vars
    /\ [](pc = "emit" => ~rateLimited)

\* the notice was logged for a page that ended a streak of two errors and no
\* entry of the page is written yet
C17_Witness ==
    /\ pc = "emit"
    /\ idx = 1
    /\ entries # << >>
    /\ rlCount = 2
    /\ logs # << >>
    /\ logs[Len(logs)] = LogExpired
    /\ Len(SelectSeq(logs, IsExpired)) = 1
    /\ ~rateLimited

\* the entries fetched and not yet emitted: the buffer of the pager and the
\* part of the current page the range loop has not reached
Held ==
    Len(items) + (CASE pc = "page" -> Len(entries)
                    [] pc = "emit" -> Len(entries) - (idx - 1)
                    [] OTHER -> 0)

\* C18: the loop never pipelines: when a request is issued every entry of the
\* pages fetched before was emitted, and the entries held and not yet emitted
\* never exceed one page, also when the backend answers with short pages.
C18_NoPipelining ==
    /\ Held <= PageSize
    /\ pc \in { "rpc", "inflight" }
          => /\ entries = << >>
             /\ Len(items) < PageSize
             /\ Len(out) + Len(SelectSeq(logs, IsSkipLine)) = TokenPos(currentToken)
    /\ pc = "inflight" => lastRequest.PageSize + Len(items) = PageSize

\* a request for the rest of the second page is in flight while a short
\* answer is buffered
C18_Witness ==
    /\ pc = "inflight"
    /\ items # << >>
    /\ currentToken # EmptyToken
    /\ Len(out) + Len(SelectSeq(logs, IsSkipLine)) = PageSize
    /\ lastRequest.PageSize < PageSize

\* C20: with a finite result set and finitely many rate-limit errors the
\* loop, under weak fairness of its steps, eventually returns, and the token
\* of a request never precedes an entry that was already emitted; the saved
\* token never moves back.
C20_ForwardProgress ==
    /\ <>(pc = "done")
    /\ [][ TokenPos(currentToken') >= TokenPos(currentToken) ]_vars
    /\ [][ (pc = "rpc" /\ pc' = "inflight")
            => TokenPos(lastRequest'.PageToken)
                 >= Len(out) + Len(SelectSeq(logs, IsSkipLine)) ]_vars

\* the loop has returned after a rate-limit pause on a later page
C20_Witness ==
    /\ pc = "done"
    /\ rlCount > 0
    /\ cursors > 1
    /\ currentToken # EmptyToken
    /\ TokenPos(lastRequest.PageToken) >= TokenPos(currentToken)
    /\ Len(out) = nEntries
    /\ nEntries = MaxEntries

====
